---------------------------- MODULE Spec2Model ----------------------------
(***************************************************************************)
(* A model of the ad_helper library (src/src/lib.rs):                      *)
(*   - autoconnect_ldap: DNS SRV discovery, TLS connect, GSSAPI bind;      *)
(*   - the AttributeHelper operations on an ldap3 SearchEntry;             *)
(*   - obj_sid_to_string, the binary SID decoder behind sid().             *)
(*                                                                         *)
(* Strings are sequences of one-character strings, so that formatting and  *)
(* parsing are computed rather than assumed.  Integers wider than TLC's    *)
(* 32-bit values (i64, u64, u32, f64 mantissas) are sequences of decimal   *)
(* digits, most significant first, without leading zeros (zero is <<0>>).  *)
(***************************************************************************)
EXTENDS Integers, Sequences, FiniteSets, TLC

VARIABLES
    \* ---- autoconnect_ldap ----
    pc,          \* the await point the call is suspended at, or "done"
    timeout,     \* the Option<Duration> argument: "none" or "some"
    lookup,      \* the SRV records in the order the DNS lookup returned them
    records,     \* the sorted records (line 12-15)
    idx,         \* how many records recs_iter has yielded
    attempts,    \* the records LdapConnAsync::new was called for, in order
    binds,       \* the sasl_gssapi_bind calls issued, in order
    opened,      \* the records whose LdapConnAsync::new returned Ok
    outcome,     \* the value the call returned, once pc = "done"
    \* ---- AttributeHelper on a SearchEntry ----
    attrs,       \* SearchEntry::attrs, HashMap<String, Vec<String>>
    bin_attrs,   \* SearchEntry::bin_attrs, HashMap<String, Vec<Vec<u8>>>
    calls,       \* the calls made on the entry so far, with what they returned
    alive        \* FALSE once a call has panicked (the thread unwinds)

connVars  == <<pc, timeout, lookup, records, idx, attempts, binds, opened, outcome>>
entryVars == <<attrs, bin_attrs, calls, alive>>
vars      == <<pc, timeout, lookup, records, idx, attempts, binds, opened, outcome,
               attrs, bin_attrs, calls, alive>>

-----------------------------------------------------------------------------
(* Bounds of the model. *)

MaxRecords == 3      \* SRV records in one DNS answer
MaxCalls   == 2      \* AttributeHelper calls on one entry
MaxValues  == 3      \* values of one multi-valued attribute
MaxSidLen  == 72     \* bytes of an objectSid value
NearTicks  == 1      \* lastLogonTimestamp values taken on each side of a boundary

None == [kind |-> "none"]
Some(v) == [kind |-> "some", val |-> v]
Panic == [kind |-> "panic"]
Ok(v) == [kind |-> "ok", val |-> v]
Err(e) == [kind |-> "err", err |-> e]
Value(v) == [kind |-> "value", val |-> v]

-----------------------------------------------------------------------------
(* Decimal arithmetic on digit sequences. *)

RECURSIVE Norm(_)
Norm(ds) ==
    IF ds = <<>> THEN <<0>>
    ELSE IF Len(ds) > 1 /\ ds[1] = 0 THEN Norm(Tail(ds)) ELSE ds

RECURSIVE NatDigits(_)
NatDigits(n) == IF n < 10 THEN <<n>> ELSE Append(NatDigits(n \div 10), n % 10)

\* a * m + c for small naturals m and c
RECURSIVE MulAddRaw(_, _, _)
MulAddRaw(a, m, c) ==
    IF a = <<>> THEN (IF c = 0 THEN <<>> ELSE NatDigits(c))
    ELSE LET v == a[Len(a)] * m + c
         IN  Append(MulAddRaw(SubSeq(a, 1, Len(a) - 1), m, v \div 10), v % 10)

MulAdd(a, m, c) == Norm(MulAddRaw(a, m, c))

BigLess(a, b) ==
    \/ Len(a) < Len(b)
    \/ /\ Len(a) = Len(b)
       /\ \E i \in 1..Len(a) :
            /\ a[i] < b[i]
            /\ \A j \in 1..(i - 1) : a[j] = b[j]

BigLeq(a, b) == a = b \/ BigLess(a, b)

\* a - b for a >= b
RECURSIVE SubRaw(_, _, _)
SubRaw(a, b, borrow) ==
    IF a = <<>> THEN <<>>
    ELSE LET bd == IF b = <<>> THEN 0 ELSE b[Len(b)]
             v  == a[Len(a)] - bd - borrow
             bb == IF b = <<>> THEN <<>> ELSE SubSeq(b, 1, Len(b) - 1)
         IN  Append(SubRaw(SubSeq(a, 1, Len(a) - 1), bb, IF v < 0 THEN 1 ELSE 0),
                    IF v < 0 THEN v + 10 ELSE v)

BigSub(a, b) == Norm(SubRaw(a, b, 0))

\* a mod m for a small natural m
RECURSIVE BigModFrom(_, _, _, _)
BigModFrom(a, m, i, acc) ==
    IF i > Len(a) THEN acc ELSE BigModFrom(a, m, i + 1, (acc * 10 + a[i]) % m)

BigMod(a, m) == BigModFrom(a, m, 1, 0)

\* the value of a digit sequence known to be small
RECURSIVE SmallFrom(_, _, _)
SmallFrom(a, i, acc) ==
    IF i > Len(a) THEN acc ELSE SmallFrom(a, i + 1, acc * 10 + a[i])

SmallVal(a) == SmallFrom(a, 1, 0)

RECURSIVE Pow2(_)
Pow2(n) == IF n = 0 THEN 1 ELSE 2 * Pow2(n - 1)

RECURSIVE BigPow2Seq(_)
BigPow2Seq(n) ==
    IF n = 0 THEN << <<1>> >>
    ELSE LET p == BigPow2Seq(n - 1) IN Append(p, MulAdd(p[n], 2, 0))

\* BigPow2[n + 1] is 2^n, for n in 0..64
BigPow2 == BigPow2Seq(64)

\* the number of bits of a: the least n with a < 2^n
BitLen(a) == CHOOSE n \in 0..64 :
    /\ BigLess(a, BigPow2[n + 1])
    /\ n > 0 => BigLeq(BigPow2[n], a)

DigitChar(d) == CASE d = 0 -> "0" [] d = 1 -> "1" [] d = 2 -> "2" [] d = 3 -> "3"
                  [] d = 4 -> "4" [] d = 5 -> "5" [] d = 6 -> "6" [] d = 7 -> "7"
                  [] d = 8 -> "8" [] d = 9 -> "9"

DigitChars == {"0", "1", "2", "3", "4", "5", "6", "7", "8", "9"}

CharDigit(c) == CHOOSE d \in 0..9 : DigitChar(d) = c

\* Display / to_string of an unsigned integer
to_string(a) == [i \in 1..Len(a) |-> DigitChar(a[i])]

-----------------------------------------------------------------------------
(* autoconnect_ldap (lib.rs 9-50).  The call is one async function; an     *)
(* action runs it from one await to the next.  The DNS answer, and whether *)
(* each connect and the bind succeed, are the environment's choice.        *)
(* The URL built from the target (line 19-23) only names the server to     *)
(* connect to; the control flow does not read it.                          *)

Priorities == {10, 20, 30}

\* What srv.target().iter().next() and from_utf8 give for a record's target:
\* a first label that is UTF-8, one that is not, or no label (the root name).
LabelKinds == {"utf8", "nonutf8", "none"}

SrvShapes == [priority : Priorities, label : LabelKinds]

\* the answers of srv_lookup: each record carries its position in the answer
SrvAnswers ==
    UNION { { [i \in 1..n |-> [id |-> i, priority |-> f[i].priority, label |-> f[i].label]]
              : f \in [1..n -> SrvShapes] } : n \in 0..MaxRecords }

\* sorted_by(|a, b| a.priority().cmp(&b.priority())): itertools sorts with
\* the standard stable sort, so equal priorities keep their order
RECURSIVE InsertByPriority(_, _)
InsertByPriority(s, r) ==
    IF s = <<>> THEN <<r>>
    ELSE IF s[Len(s)].priority <= r.priority THEN Append(s, r)
    ELSE Append(InsertByPriority(SubSeq(s, 1, Len(s) - 1), r), s[Len(s)])

RECURSIVE SortFrom(_, _, _)
SortFrom(s, i, acc) ==
    IF i > Len(s) THEN acc ELSE SortFrom(s, i + 1, InsertByPriority(acc, s[i]))

\* the records left in the order of the DNS answer (the sort forgotten)
unsorted(s) == s

sorted_by_priority(s) == SortFrom(s, 1, <<>>)

\* an entry without attributes, on which nothing has been called
NoAttrs == [n \in {} |-> <<>>]

EntryIdle ==
    /\ attrs = NoAttrs
    /\ bin_attrs = NoAttrs
    /\ calls = <<>>
    /\ alive = TRUE

InitConn ==
    /\ EntryIdle
    /\ pc = "start"
    /\ timeout \in {"none", "some"}
    /\ lookup = None
    /\ records = <<>>
    /\ idx = 0
    /\ attempts = <<>>
    /\ binds = <<>>
    /\ opened = {}
    /\ outcome = None

\* the iterator rebuilt on every pass of the loop, so that next() yields the
\* first record again
AdvanceFromStart(recs, i) ==
    IF recs # <<>>
    THEN /\ idx' = 1
         /\ attempts' = Append(attempts, recs[1])
         /\ pc' = "connect_wait"
         /\ outcome' = outcome
    ELSE /\ idx' = i
         /\ attempts' = attempts
         /\ pc' = "done"
         /\ outcome' = Err("NoServerAvailable")

\* recs_iter.next() with i records already yielded: either the next
\* record's LdapConnAsync::new is awaited, or the call bails (line 47)
Advance(recs, i) ==
    IF i < Len(recs)
    THEN /\ idx' = i + 1
         /\ attempts' = Append(attempts, recs[i + 1])
         /\ pc' = "connect_wait"
         /\ outcome' = outcome
    ELSE /\ idx' = i
         /\ attempts' = attempts
         /\ pc' = "done"
         /\ outcome' = Err("NoServerAvailable")

\* line 10-11: the resolver is built and srv_lookup awaited, or `?` returns
Start ==
    /\ pc = "start"
    /\ \E resolverOk \in BOOLEAN :
         IF resolverOk
         THEN pc' = "lookup_wait" /\ outcome' = outcome
         ELSE pc' = "done" /\ outcome' = Err("DnsInitFailed")
    /\ UNCHANGED <<timeout, lookup, records, idx, attempts, binds, opened>>
    /\ UNCHANGED entryVars

\* line 11-24: the lookup failed
LookupFails ==
    /\ pc = "lookup_wait"
    /\ pc' = "done"
    /\ outcome' = Err("SrvLookupFailed")
    /\ UNCHANGED <<timeout, lookup, records, idx, attempts, binds, opened>>
    /\ UNCHANGED entryVars

\* line 11-24: the lookup returned, the records are sorted, the loop starts
LookupReturns ==
    /\ pc = "lookup_wait"
    /\ \E ans \in SrvAnswers :
         /\ lookup' = Some(ans)
         /\ records' = sorted_by_priority(ans)
         /\ Advance(sorted_by_priority(ans), 0)
    /\ UNCHANGED <<timeout, binds, opened>>
    /\ UNCHANGED entryVars

\* the connect error returned with `?` instead of being printed
ConnectFailsReturns ==
    /\ pc = "connect_wait"
    /\ pc' = "done"
    /\ outcome' = Err("TransportFailed")
    /\ UNCHANGED <<timeout, lookup, records, idx, attempts, binds, opened>>
    /\ UNCHANGED entryVars

\* line 41-44: the connect failed; it is printed and the loop continues
ConnectFails ==
    /\ pc = "connect_wait"
    /\ Advance(records, idx)
    /\ UNCHANGED <<timeout, lookup, records, binds, opened>>
    /\ UNCHANGED entryVars

\* line 25-40: the connection opened.  A target without a first label falls
\* out of the if-let, one that is not UTF-8 continues; otherwise the
\* connection is driven, the timeout attached and the bind awaited.
ConnectReturns ==
    /\ pc = "connect_wait"
    /\ opened' = opened \cup {records[idx].id}
    /\ IF records[idx].label = "utf8"
       THEN /\ binds' = Append(binds, [rec |-> records[idx],
                                       with_timeout |-> timeout = "some",
                                       result |-> "pending"])
            /\ pc' = "bind_wait"
            /\ UNCHANGED <<idx, attempts, outcome>>
       ELSE /\ Advance(records, idx)
            /\ binds' = binds
    /\ UNCHANGED <<timeout, lookup, records>>
    /\ UNCHANGED entryVars

\* a rejected bind treated like a failed connect: the loop goes on
BindReturnsRetrying ==
    /\ pc = "bind_wait"
    /\ \E bindOk \in BOOLEAN :
         /\ binds' = [binds EXCEPT ![Len(binds)].result =
                          IF bindOk THEN "ok" ELSE "rejected"]
         /\ IF bindOk
            THEN /\ outcome' = Ok(records[idx])
                 /\ pc' = "done"
                 /\ UNCHANGED <<idx, attempts>>
            ELSE Advance(records, idx)
    /\ UNCHANGED <<timeout, lookup, records, opened>>
    /\ UNCHANGED entryVars

\* line 32-35: the bind returned; a rejection bails, a success breaks the
\* loop with the session
BindReturns ==
    /\ pc = "bind_wait"
    /\ \E bindOk \in BOOLEAN :
         /\ binds' = [binds EXCEPT ![Len(binds)].result =
                          IF bindOk THEN "ok" ELSE "rejected"]
         /\ outcome' = IF bindOk THEN Ok(records[idx]) ELSE Err("AuthFailed")
    /\ pc' = "done"
    /\ UNCHANGED <<timeout, lookup, records, idx, attempts, opened>>
    /\ UNCHANGED entryVars

NextConn ==
    \/ Start
    \/ LookupFails
    \/ LookupReturns
    \/ ConnectFails
    \/ ConnectReturns
    \/ BindReturns

-----------------------------------------------------------------------------
(* Integer parsing and the FILETIME conversion (lib.rs 89-96, 108-116).    *)

\* a signed 64-bit integer: its sign and the digits of its magnitude
I64(neg, mag) == [neg |-> neg, mag |-> mag]

\* str::parse::<i64>: an optional sign, then one or more decimal digits,
\* within the range of i64; anything else is an error (None after .ok())
ParseI64(s) ==
    IF s = <<>> THEN None
    ELSE LET signed == s[1] \in {"+", "-"}
             neg    == s[1] = "-"
             body   == IF signed THEN Tail(s) ELSE s
         IN  IF body = <<>> \/ \E i \in 1..Len(body) : body[i] \notin DigitChars
             THEN None
             ELSE LET mag == Norm([i \in 1..Len(body) |-> CharDigit(body[i])])
                  IN  IF (IF neg THEN BigLeq(mag, BigPow2[64])
                                 ELSE BigLess(mag, BigPow2[64]))
                      THEN Some(I64(neg /\ mag # <<0>>, mag))
                      ELSE None

TicksPerSecond == 10000000

\* 11644473600, the seconds from 1601-01-01 to 1970-01-01
EpochDelta == <<1, 1, 6, 4, 4, 4, 7, 3, 6, 0, 0>>

ZoneOffset == NatDigits(7 * 3600)

\* `as f64` of a non-negative integer below 2^64: the nearest value with a
\* 53-bit mantissa, ties to the even mantissa
RoundToF64(m) ==
    LET bits == BitLen(m)
    IN  IF bits <= 53 THEN m
        ELSE LET step == Pow2(bits - 53)
                 rem  == BigMod(m, step)
                 down == BigSub(m, NatDigits(rem))
                 odd  == BigMod(m, 2 * step) >= step
                 up   == rem * 2 > step \/ (rem * 2 = step /\ odd)
             IN  IF up THEN MulAdd(down, 1, step) ELSE down

\* (f / 10000000.0) as u64 for an f64 f holding a non-negative integer of at
\* most 2^64: the IEEE quotient, rounded to nearest, then truncated.  With
\* f = q * 10^7 + r and q in [2^k, 2^(k+1)), the quotient rounds up to the
\* integer q + 1 when r > 0 and 1 - r / 10^7 is at most half a unit in the
\* last place, 2^(k-53) (a tie goes to q + 1, whose mantissa is even).
DivF64Trunc(f) ==
    LET q == IF Len(f) <= 7 THEN <<0>> ELSE SubSeq(f, 1, Len(f) - 7)
        r == IF Len(f) <= 7 THEN SmallVal(f) ELSE SmallVal(SubSeq(f, Len(f) - 6, Len(f)))
        e == 54 - BitLen(q)
        up == /\ r > 0
              /\ q # <<0>>
              /\ e <= 23
              /\ TicksPerSecond - r <= TicksPerSecond \div Pow2(e)
    IN  IF up THEN MulAdd(q, 1, 1) ELSE q

\* ((x as f64 / 10000000.0) as u64): a negative quotient saturates to 0
TicksToSeconds(x) == IF x.neg THEN <<0>> ELSE DivF64Trunc(RoundToF64(x.mag))

\* u64::saturating_sub
saturating_sub(a, b) == IF BigLess(a, b) THEN <<0>> ELSE BigSub(a, b)

\* NaiveDateTime::from_timestamp(secs, 0); the seconds stay below 2^40, far
\* inside the range chrono accepts, so the constructor does not panic
from_timestamp(secs, nanos) == [secs |-> secs, nanos |-> nanos]

-----------------------------------------------------------------------------
(* obj_sid_to_string (lib.rs 129-178).  A byte slice is a sequence of       *)
(* 0..255; bytes[i] of the code is b[i + 1] here.                          *)

max_identifier_authority == 6
max_sub_authorities == 15
subauth_size == 4

\* read_u32::<LittleEndian> of a 4-byte chunk
read_u32_le(c) ==
    MulAdd(MulAdd(MulAdd(NatDigits(c[4]), 256, c[3]), 256, c[2]), 256, c[1])

\* the pushes of line 170-173 over chunks_exact(4) of the bytes from `from`
RECURSIVE PushSubAuthorities(_, _, _)
PushSubAuthorities(str, b, from) ==
    IF from + subauth_size > Len(b) THEN str
    ELSE PushSubAuthorities(
            str \o <<"-">> \o to_string(read_u32_le(SubSeq(b, from + 1, from + subauth_size))),
            b, from + subauth_size)

obj_sid_to_string(b) ==
    IF b = <<>> THEN Err("NoRevision")
    ELSE LET revision == b[1]
         IN  IF revision >= Len(b) THEN Panic   \* bytes[revision]: index out of bounds
             ELSE LET subauth_count == b[revision + 1]
                      min_binary_length == revision + 1 + max_identifier_authority
                      max_binary_length == min_binary_length + subauth_count * subauth_size
                  IN  IF subauth_count > max_sub_authorities
                      THEN Err("TooManySubAuthorities")
                      ELSE IF Len(b) < min_binary_length THEN Err("TooShort")
                      ELSE IF Len(b) # max_binary_length THEN Err("LengthMismatch")
                      ELSE Ok(PushSubAuthorities(
                                <<"S", "-">> \o to_string(NatDigits(revision)) \o <<"-">>
                                    \o to_string(NatDigits(subauth_count)),
                                b, min_binary_length))

-----------------------------------------------------------------------------
(* AttributeHelper for SearchEntry (lib.rs 79-127).  attrs and bin_attrs   *)
(* are functions from the keys present to their value lists.               *)

Has(m, k) == k \in DOMAIN m
Remove(m, k) == [n \in DOMAIN m \ {k} |-> m[n]]

\* line 89-96
int_attr(a, name) ==
    IF ~Has(a, name) THEN None
    ELSE ParseI64(IF a[name] = <<>> THEN <<"0">> ELSE a[name][1])

\* line 102-106: bit 1 of the two's complement of the value is clear
enabled(a) ==
    LET got == int_attr(a, "userAccountControl")
        v   == IF got = None THEN I64(FALSE, <<2>>) ELSE got.val
        low == IF v.neg THEN (4 - BigMod(v.mag, 4)) % 4 ELSE BigMod(v.mag, 4)
    IN  low < 2

\* line 108-116
last_logon(a) ==
    LET got == int_attr(a, "lastLogonTimestamp")
        v   == IF got = None THEN I64(FALSE, <<0>>) ELSE got.val
    IN  from_timestamp(
            saturating_sub(saturating_sub(TicksToSeconds(v), EpochDelta), ZoneOffset),
            0)

\* line 118-126
sid(ba) ==
    obj_sid_to_string(
        IF Has(ba, "objectSid")
        THEN (IF ba["objectSid"] = <<>> THEN <<>> ELSE ba["objectSid"][1])
        ELSE <<>>)

\* line 98-100: what str_attr returns; Vec::remove(0) panics on an empty Vec
str_attr_ret(a, name) ==
    IF ~Has(a, name) THEN None
    ELSE IF a[name] = <<>> THEN Panic
    ELSE Some(a[name][1])

\* only the first value taken out of the list, the key kept while values remain
str_attr_post_first_only(a, name) ==
    IF ~Has(a, name) THEN a
    ELSE IF Len(a[name]) <= 1 THEN Remove(a, name)
    ELSE [a EXCEPT ![name] = Tail(a[name])]

\* line 98-100: the entry after str_attr: HashMap::remove took the whole
\* value list out of the map
str_attr_post(a, name) == IF Has(a, name) THEN Remove(a, name) ELSE a

\* line 80-87
member_of_ret(a) == IF Has(a, "memberOf") THEN Some(a["memberOf"]) ELSE None

member_of_post(a) == IF Has(a, "memberOf") THEN Remove(a, "memberOf") ELSE a

AttrNames == {"x", "memberOf", "userAccountControl", "lastLogonTimestamp"}

Call(op, name, ret, post) ==
    [op |-> op, name |-> name, ret |-> ret, pre |-> attrs, post |-> post]

\* a call is made on an entry whose thread has not panicked
Record(op, name, ret, post) ==
    /\ alive
    /\ Len(calls) < MaxCalls
    /\ calls' = Append(calls, Call(op, name, ret, post))
    /\ attrs' = post
    /\ alive' = (ret # Panic)
    /\ UNCHANGED bin_attrs
    /\ UNCHANGED connVars

CallIntAttr == \E name \in AttrNames :
    Record("int_attr", name, int_attr(attrs, name), attrs)

CallStrAttr == \E name \in AttrNames :
    Record("str_attr", name, str_attr_ret(attrs, name), str_attr_post(attrs, name))

CallMemberOf == Record("member_of", "memberOf", member_of_ret(attrs), member_of_post(attrs))

CallEnabled == Record("enabled", "userAccountControl", Value(enabled(attrs)), attrs)

CallLastLogon == Record("last_logon", "lastLogonTimestamp", Value(last_logon(attrs)), attrs)

CallSid == Record("sid", "objectSid", sid(bin_attrs), attrs)


-----------------------------------------------------------------------------
(* The entries the operations are applied to.                              *)

SeqsUpTo(S, n) == UNION { [1..k -> S] : k \in 0..n }

\* 116444988000000000: the first tick count whose seconds reach the delta
\* plus the zone offset; 132514560000000000: 2020-12-03 08:00:00 UTC
LogonBases == { <<1, 1, 6, 4, 4, 4, 9, 8, 8, 0, 0, 0, 0, 0, 0, 0, 0, 0>>,
                <<1, 3, 2, 5, 1, 4, 5, 6, 0, 0, 0, 0, 0, 0, 0, 0, 0, 0>> }

LogonTicks ==
    { <<0>>, BigSub(BigPow2[64], <<1>>) }
    \cup UNION { { BigSub(b, NatDigits(k)), MulAdd(b, 1, k) }
                 : b \in LogonBases, k \in 0..NearTicks }

\* the decimal strings an entry may hold under lastLogonTimestamp
LogonStrings ==
    { to_string(t) : t \in LogonTicks }
    \cup { <<"-">> \o to_string(<<5>>), to_string(BigPow2[64]), <<"x">>, <<>> }

UacStrings == { <<"5", "1", "2">>, <<"5", "1", "4">>, <<"-", "2">>, <<"x">> }

ValueLists(name) ==
    CASE name = "x" -> SeqsUpTo({ <<"a">>, <<"b">> }, MaxValues)
      [] name = "memberOf" -> SeqsUpTo({ <<"g">>, <<"h">> }, MaxValues)
      [] name = "userAccountControl" -> { <<>> } \cup { <<v>> : v \in UacStrings }
      [] name = "lastLogonTimestamp" -> { <<>> } \cup { <<v>> : v \in LogonStrings }

\* entries holding one attribute with any of its value lists, or two
\* attributes with one value each, or none
EntryAttrs ==
    { a \in UNION { [D -> UNION { ValueLists(n) : n \in D }]
                    : D \in { E \in SUBSET AttrNames : Cardinality(E) <= 2 } } :
        /\ \A n \in DOMAIN a : a[n] \in ValueLists(n)
        /\ Cardinality(DOMAIN a) = 2 => \A n \in DOMAIN a : Len(a[n]) = 1 }

\* the bytes of an objectSid value: a revision byte, a count byte and a
\* filling of the remaining bytes
SidHeadBytes == {0, 1, 2, 3, 15, 16, 255}

SidFills == {"zero", "one", "ramp", "high"}

Fill(pat, i) ==
    CASE pat = "zero" -> 0
      [] pat = "one"  -> 1
      [] pat = "ramp" -> (7 * i) % 256
      [] pat = "high" -> 255

SidInputs ==
    { [i \in 1..n |-> IF i = 1 THEN b0 ELSE IF i = 2 THEN b1 ELSE Fill(pat, i)]
      : n \in 0..MaxSidLen, b0 \in SidHeadBytes, b1 \in SidHeadBytes, pat \in SidFills }

ConnIdle ==
    /\ pc = "start"
    /\ timeout = "none"
    /\ lookup = None
    /\ records = <<>>
    /\ idx = 0
    /\ attempts = <<>>
    /\ binds = <<>>
    /\ opened = {}
    /\ outcome = None

InitAttr ==
    /\ ConnIdle
    /\ attrs \in EntryAttrs
    /\ bin_attrs \in { NoAttrs, [n \in {"objectSid"} |-> << <<1>> >>] }
    /\ calls = <<>>
    /\ alive = TRUE

InitSid ==
    /\ ConnIdle
    /\ attrs = NoAttrs
    /\ bin_attrs \in { NoAttrs, [n \in {"objectSid"} |-> <<>>] }
                     \cup { [n \in {"objectSid"} |-> <<b>>] : b \in SidInputs }
    /\ calls = <<>>
    /\ alive = TRUE

NextAttr ==
    \/ CallIntAttr
    \/ CallStrAttr
    \/ CallMemberOf
    \/ CallEnabled
    \/ CallLastLogon
    \/ CallSid

NextSid == CallSid

SpecConn == InitConn /\ [][NextConn]_vars

\* every await of the call returns: the runtime resumes a task that is ready
FairSpecConn == SpecConn /\ WF_vars(NextConn)

SpecAttr == InitAttr /\ [][NextAttr]_vars

SpecSid == InitSid /\ [][NextSid]_vars


-----------------------------------------------------------------------------
(* Properties.                                                             *)

\* the bytes sid() hands to the decoder
SidInput == IF Has(bin_attrs, "objectSid") /\ bin_attrs["objectSid"] # <<>>
            THEN bin_attrs["objectSid"][1] ELSE <<>>

SidCalls == { i \in 1..Len(calls) : calls[i].op = "sid" }

\* the string of the documented layout: revision at offset 0, count at
\* offset 1, the i-th sub-authority little-endian at offset 8 + 4 * i
RECURSIVE LayoutSegments(_, _, _)
LayoutSegments(b, i, n) ==
    IF i >= n THEN <<>>
    ELSE <<"-">> \o to_string(read_u32_le(SubSeq(b, 8 + 4 * i + 1, 8 + 4 * i + 4)))
         \o LayoutSegments(b, i + 1, n)

LayoutString(b) ==
    <<"S", "-">> \o to_string(NatDigits(b[1])) \o <<"-">> \o to_string(NatDigits(b[2]))
    \o LayoutSegments(b, 0, b[2])

WellSized(b) == Len(b) >= 2 /\ b[2] <= 15 /\ Len(b) = 8 + 4 * b[2]

\* C1: every well-sized input (b[1] <= 15, length 8 + 4 * b[1]), whatever
\* its revision byte, decodes to "S-<b[0]>-<b[1]>" followed by the b[1]
\* little-endian sub-authorities read at offsets 8 + 4 * i.
C1_WellSizedDecodes ==
    \A i \in SidCalls :
        WellSized(SidInput) => calls[i].ret = Ok(LayoutString(SidInput))

\* C2: an input of at least two bytes whose length differs from
\* 8 + 4 * b[1] is never answered with a string, whatever its revision
\* byte.  (That the answer is then an error rather than a panic is C3's.)
C2_WrongLengthNoString ==
    \A i \in SidCalls :
        (Len(SidInput) >= 2 /\ Len(SidInput) # 8 + 4 * SidInput[2])
            => calls[i].ret.kind # "ok"

\* C3: no call of sid, int_attr, str_attr, member_of, enabled or last_logon
\* panics, whatever the entry holds.
C3_NoCallPanics ==
    \A i \in 1..Len(calls) : calls[i].ret.kind # "panic"

Range(q) == { q[i] : i \in 1..Len(q) }

\* C4: the connection attempts of one call are in non-decreasing priority,
\* records of equal priority in the order of the DNS answer, and no record
\* is attempted before an unattempted record of lower priority value.
C4_SrvOrdering ==
    /\ \A i, j \in 1..Len(attempts) :
         i < j => \/ attempts[i].priority < attempts[j].priority
                  \/ /\ attempts[i].priority = attempts[j].priority
                     /\ attempts[i].id < attempts[j].id
    /\ lookup # None =>
         \A j \in 1..Len(attempts) : \A r \in Range(lookup.val) :
             r.priority < attempts[j].priority
                 => \E i \in 1..(j - 1) : attempts[i] = r

\* C4 witness: the answer [30, 10, 20] has been attempted as [10, 20, 30],
C4_Witness ==
    /\ lookup # None
    /\ Len(lookup.val) = 3
    /\ [i \in 1..3 |-> lookup.val[i].priority] = <<30, 10, 20>>
    /\ [i \in 1..Len(attempts) |-> attempts[i].priority] = <<10, 20, 30>>

\* C5: once a bind is rejected the call has ended with AuthFailed, that
\* bind is the only one, and the rejected record is the last one connected.
C5_BindFailureTerminal ==
    \A i \in 1..Len(binds) :
        binds[i].result = "rejected" =>
            /\ pc = "done"
            /\ outcome = Err("AuthFailed")
            /\ Len(binds) = 1
            /\ attempts[Len(attempts)] = binds[i].rec
            /\ idx = Len(attempts)

\* C5 witness: a bind was rejected while records remained untried.
C5_Witness ==
    /\ binds # <<>>
    /\ binds[Len(binds)].result = "rejected"
    /\ Len(attempts) < Len(records)

TransportFailed(r) == r \in Range(attempts) /\ r.id \notin opened

\* C6: a call that ends after a transport failure of its last attempt has
\* attempted every record; and a call whose lookup returned fails with
\* NoServerAvailable exactly when every record was attempted, each failing
\* at transport level or lacking a UTF-8 first label, with no bind issued.
C6_TransportRecovered ==
    /\ (pc = "done" /\ attempts # <<>> /\ TransportFailed(attempts[Len(attempts)]))
           => /\ Len(attempts) = Len(records)
              /\ outcome = Err("NoServerAvailable")
    /\ (pc # "done" /\ lookup # None) => Len(attempts) <= Len(records)
    /\ (pc = "done" /\ lookup # None) =>
           (outcome = Err("NoServerAvailable")
               <=> /\ Range(attempts) = Range(records)
                   /\ \A r \in Range(records) : TransportFailed(r) \/ r.label # "utf8"
                   /\ \A i \in 1..Len(binds) : binds[i].result \notin {"ok", "rejected"})
    /\ (pc = "done" /\ lookup # None /\ lookup.val = <<>>)
           => outcome = Err("NoServerAvailable")

\* C6 witness: NoServerAvailable after a transport failure followed by
\* further attempts, one of them skipped for its first label.
C6_Witness ==
    /\ pc = "done"
    /\ outcome = Err("NoServerAvailable")
    /\ Len(attempts) = 3
    /\ TransportFailed(attempts[1])
    /\ \E r \in Range(attempts) : r.id \in opened /\ r.label # "utf8"

StrAttrCalls == { i \in 1..Len(calls) : calls[i].op = "str_attr" }

\* C7 as stated: with values [v1, ..., vk], k >= 2, str_attr(x) returns v1
\* and leaves [v2, ..., vk], so that a second str_attr(x) returns v2; with
\* k = 1 the key is removed and the second call returns absent.
C7_LeavesRemainingValues ==
    \A i \in StrAttrCalls :
        LET x == calls[i].name
            c == calls[i]
        IN  (Has(c.pre, x) /\ Len(c.pre[x]) >= 1) =>
                /\ c.ret = Some(c.pre[x][1])
                /\ IF Len(c.pre[x]) >= 2
                   THEN Has(c.post, x) /\ c.post[x] = Tail(c.pre[x])
                   ELSE ~Has(c.post, x)
                /\ (i + 1 \in StrAttrCalls /\ calls[i + 1].name = x) =>
                       calls[i + 1].ret = IF Len(c.pre[x]) >= 2
                                          THEN Some(c.pre[x][2]) ELSE None

\* C7 amended: with values [v1, ..., vk], k >= 1, str_attr(x) returns v1 and
\* removes the key x with all of its values, leaving every other attribute
\* as it was, so that a second str_attr(x) returns absent for every k.
C7_RemovesWholeAttribute ==
    \A i \in StrAttrCalls :
        LET x == calls[i].name
            c == calls[i]
        IN  (Has(c.pre, x) /\ Len(c.pre[x]) >= 1) =>
                /\ c.ret = Some(c.pre[x][1])
                /\ DOMAIN c.post = DOMAIN c.pre \ {x}
                /\ \A n \in DOMAIN c.post : c.post[n] = c.pre[n]
                /\ (i + 1 \in StrAttrCalls /\ calls[i + 1].name = x) =>
                       calls[i + 1].ret = None

\* C7 witness: two str_attr calls on an attribute that held several values.
C7_Witness ==
    /\ Len(calls) >= 2
    /\ calls[1].op = "str_attr" /\ calls[2].op = "str_attr"
    /\ calls[1].name = "x" /\ calls[2].name = "x"
    /\ Has(calls[1].pre, "x") /\ Len(calls[1].pre["x"]) >= 2
    /\ calls[1].ret = Some(<<"a">>)
    /\ calls[2].ret = None

\* floor(t / 10^7) for t >= 0, in exact integer arithmetic
ExactSeconds(mag) == IF Len(mag) <= 7 THEN <<0>> ELSE SubSeq(mag, 1, Len(mag) - 7)

\* max(0, floor(t / 10^7) - 11644473600 - 25200) for the entry's
\* lastLogonTimestamp t, absent or unparseable taken as 0
ExactLogonSeconds(a) ==
    LET got == int_attr(a, "lastLogonTimestamp")
        t   == IF got = None THEN I64(FALSE, <<0>>) ELSE got.val
        s   == IF t.neg THEN <<0>> ELSE ExactSeconds(t.mag)
    IN  IF BigLess(s, MulAdd(EpochDelta, 1, 7 * 3600)) THEN <<0>>
        ELSE BigSub(s, MulAdd(EpochDelta, 1, 7 * 3600))

\* C8: last_logon returns max(0, floor(t / 10^7) - 11644473600 - 25200)
\* whole seconds after the Unix epoch, with zero nanoseconds.
C8_ExactFloorSeconds ==
    \A i \in 1..Len(calls) :
        calls[i].op = "last_logon" =>
            calls[i].ret = Value([secs |-> ExactLogonSeconds(calls[i].pre), nanos |-> 0])

\* C9: a supplied timeout does not govern the GSSAPI bind: no bind is issued
\* on a handle that already carries the timeout.
C9_TimeoutNotOnBind ==
    \A i \in 1..Len(binds) : ~binds[i].with_timeout

\* C10, safety: a call whose lookup returned ends as a bound session,
\* AuthFailed or NoServerAvailable; no record is connected to twice, at
\* most one bind is issued, and a session is returned only for a record
\* whose connection opened, whose first label is UTF-8 and whose bind
\* succeeded.
C10_Safety ==
    /\ (pc = "done" /\ lookup # None) =>
           \/ outcome.kind = "ok"
           \/ outcome = Err("AuthFailed")
           \/ outcome = Err("NoServerAvailable")
    /\ \A i, j \in 1..Len(attempts) : i # j => attempts[i].id # attempts[j].id
    /\ Len(attempts) <= Len(records)
    /\ Len(binds) <= 1
    /\ outcome.kind = "ok" =>
           /\ outcome.val.id \in opened
           /\ outcome.val.label = "utf8"
           /\ binds = << [rec |-> outcome.val, with_timeout |-> timeout = "some",
                          result |-> "ok"] >>

\* C10: every call terminates, given that each await returns, and the
\* safety part holds throughout.
C10_TerminatesOnce == [](C10_Safety) /\ <>(pc = "done")

\* C10 witness: a session returned by the third record attempted.
C10_Witness ==
    /\ pc = "done"
    /\ outcome.kind = "ok"
    /\ Len(attempts) = 3
    /\ outcome.val = attempts[3]


=============================================================================
